---- MODULE Spec2Model ----
(***************************************************************************)
(* Model of the recipe API (app/recipe/views.py, app/recipe/serializers.py,*)
(* app/recipe/urls.py).  The database tables are the state; every HTTP     *)
(* handler of the view sets is one action.  `req` is the request that was  *)
(* handled last and `res` the response it got.                             *)
(***************************************************************************)
EXTENDS Integers, Sequences, FiniteSets, TLC

VARIABLES
    recipes,        \* Recipe table: id -> row (links to tags/ingredients in the row)
    tags,           \* Tag table: id -> [user, name]
    ingredients,    \* Ingredient table: id -> [user, name]
    nextRecipeId,   \* auto-increment primary keys
    nextTagId,
    nextIngredientId,
    writes,         \* requests handled so far that changed a table
    req,            \* the examined request: [resource, action, user, pk, data, params]
    res,            \* its response: [status, body]
    before,         \* the tables as the examined request found them
    users,          \* User table: id -> [email, name, password, is_staff, is_superuser]
    nextUserId,
    tokens          \* Token table: the ids of the users that have a token

vars == <<recipes, tags, ingredients, nextRecipeId, nextTagId, nextIngredientId,
          writes, req, res, before, users, nextUserId, tokens>>
db == <<recipes, tags, ingredients, nextRecipeId, nextTagId, nextIngredientId>>
accounts == <<users, nextUserId, tokens>>

----------------------------------------------------------------------------
(* Bounds of the model *)

MaxWrites == 2
MaxListLen == 2

(* Requesters.  Anon is a request that carries no valid token. *)
Users == {"u1", "u2"}
Anon == "anon"

(* Tag and ingredient names, with the collation order_by("-name") sorts by. *)
Collation == <<"a", "b">>
Names == {Collation[i] : i \in DOMAIN Collation}
NameRank(n) == CHOOSE i \in DOMAIN Collation : Collation[i] = n

NoBody == <<>>
NoData == <<>>

HTTP_200_OK == 200
HTTP_201_CREATED == 201
HTTP_204_NO_CONTENT == 204
HTTP_400_BAD_REQUEST == 400
HTTP_401_UNAUTHORIZED == 401
HTTP_404_NOT_FOUND == 404
HTTP_405_METHOD_NOT_ALLOWED == 405
HTTP_500_INTERNAL_SERVER_ERROR == 500

----------------------------------------------------------------------------
(* Generic helpers *)

Max(S) == CHOOSE x \in S : \A y \in S : y <= x

RECURSIVE SortDesc(_)
SortDesc(S) == IF S = {} THEN <<>> ELSE <<Max(S)>> \o SortDesc(S \ {Max(S)})

Range(s) == {s[i] : i \in DOMAIN s}

(* dict restricted to a set of keys *)
Restrict(d, keys) == [k \in (DOMAIN d) \cap keys |-> d[k]]

(* row with the attributes of d set (setattr for every item of d) *)
SetAttrs(row, d) == [f \in DOMAIN row |-> IF f \in DOMAIN d THEN d[f] ELSE row[f]]

Seqs(S, n) == UNION {[1..k -> S] : k \in 0..n}

----------------------------------------------------------------------------
(* Requests and their payloads *)

NoPk == 0
NoParams == <<>>

Request(resource, action, u, pk, data, params) ==
    [resource |-> resource, action |-> action, user |-> u, pk |-> pk,
     data |-> data, params |-> params]

Response(status, body) == [status |-> status, body |-> body]

(* lists of tag / ingredient names: empty, one name, two names, a repeated name *)
NameLists == {l \in Seqs(Names, MaxListLen) :
                \A i, j \in DOMAIN l : i < j => NameRank(l[i]) <= NameRank(l[j])}

S1 == [title |-> "t1", time_minutes |-> 10, price |-> 5]
S2 == [title |-> "t2", time_minutes |-> 20, price |-> 7, link |-> "l2",
       description |-> "d2"]
P1 == [title |-> "t2"]

TagParts == {[tags |-> l] : l \in NameLists}
IngredientParts == {[ingredients |-> l] : l \in NameLists}
RelParts == TagParts \cup IngredientParts
            \cup {[tags |-> <<"a">>, ingredients |-> <<"a">>]}
UserParts(u) == {[user |-> v] : v \in Users \ {u}}

(* payloads of POST and PUT on a recipe: the first two miss required fields *)
FullPayloads(u) ==
    {NoData, P1, S1, S2}
    \cup {S1 @@ w : w \in UserParts(u)}
    \cup {S1 @@ x : x \in RelParts}

(* payloads of PATCH on a recipe *)
PartialPayloads(u) ==
    {NoData, P1, S2}
    \cup {P1 @@ w : w \in UserParts(u)}
    \cup RelParts
    \cup {P1 @@ [tags |-> <<"b">>]}

RecipePayloads(u, partial) == IF partial THEN PartialPayloads(u) ELSE FullPayloads(u)

AttrPayloads == {NoData} \cup {[name |-> n] : n \in Names}

ValidImages == {"img1"}
ImagePayloads == {NoData, [image |-> "notanimage"], [image |-> "img1"]}

(* what a request carries when it is answered before its body is read (no
   credentials, no such object): nothing, or a payload that would change a lot *)
EarlyPayloads == {NoData, S2 @@ [tags |-> <<"b">>, name |-> "b", image |-> "img1"]}

PayloadsOf(read, all) == IF read THEN all ELSE EarlyPayloads

----------------------------------------------------------------------------
(* core.models: rows and their defaults *)

RecipeDefaults == [link |-> "", description |-> "", image |-> ""]

NewRecipeRow(kwargs) ==
    [f \in {"user", "title", "time_minutes", "price", "link", "description", "image"}
        |-> IF f \in DOMAIN kwargs THEN kwargs[f] ELSE RecipeDefaults[f]]
    @@ [tags |-> {}, ingredients |-> {}]

RequiredRecipeFields == {"title", "time_minutes", "price"}

(* a Tag or Ingredient row; the table holds any number of rows of one user
   and one name *)
NewAttrRow(u, n) == [user |-> u, name |-> n]

----------------------------------------------------------------------------
(* recipe/serializers.py *)

TagSerializer_fields == {"id", "name"}
RecipeSerializer_fields ==
    {"id", "title", "time_minutes", "price", "link", "tags", "ingredients"}
RecipeDetailSerializer_fields == RecipeSerializer_fields \cup {"description", "image"}
RecipeImageSerializer_fields == {"id", "image"}
read_only_fields == {"id"}

(* is_valid(): a field that is required and missing is an error, unless the
   update is partial. *)
is_valid(data, required, partial) == partial \/ required \subseteq DOMAIN data

(* as validated_data, with the keys the serializer does not declare let through *)
validated_data_undeclared(data, fields) == Restrict(data, DOMAIN data \ read_only_fields)

(* validated_data: the declared, writable fields of the payload; any other key
   of the payload is dropped. *)
validated_data(data, fields) == Restrict(data, fields \ read_only_fields)

(* as RecipeImageSerializer_is_valid, taking any value for the image *)
RecipeImageSerializer_is_valid_any_value(data) == is_valid(data, {"image"}, FALSE)

(* RecipeImageSerializer(instance, data).is_valid(): image is required
   (extra_kwargs) and an ImageField, which takes nothing but an image file *)
RecipeImageSerializer_is_valid(data) ==
    is_valid(data, {"image"}, FALSE) /\ data.image \in ValidImages

(* The loop of _get_or_create_tags / _get_or_create_ingredients over `names`
   for user u: Model.objects.get_or_create(user=u, name=n), then add to the
   recipe.  tbl is the table, nxt its next id, linked the recipe's links.
   get_or_create raises MultipleObjectsReturned when several rows match; the
   rows inserted and links added before that stay. *)
RECURSIVE get_or_create_all(_, _, _, _, _)
get_or_create_all(names, u, tbl, nxt, linked) ==
    IF names = <<>>
    THEN [tbl |-> tbl, nxt |-> nxt, linked |-> linked, ok |-> TRUE]
    ELSE LET n == Head(names)
             match == {t \in DOMAIN tbl : tbl[t].user = u /\ tbl[t].name = n}
         IN  IF Cardinality(match) > 1
             THEN [tbl |-> tbl, nxt |-> nxt, linked |-> linked, ok |-> FALSE]
             ELSE IF match = {}
             THEN get_or_create_all(Tail(names), u,
                                    tbl @@ (nxt :> NewAttrRow(u, n)),
                                    nxt + 1, linked \cup {nxt})
             ELSE get_or_create_all(Tail(names), u, tbl, nxt, linked \cup match)

(* as get_or_create_all, looking rows up by name alone, without user=auth_user *)
RECURSIVE get_or_create_any_user(_, _, _, _, _)
get_or_create_any_user(names, u, tbl, nxt, linked) ==
    IF names = <<>>
    THEN [tbl |-> tbl, nxt |-> nxt, linked |-> linked, ok |-> TRUE]
    ELSE LET n == Head(names)
             match == {t \in DOMAIN tbl : tbl[t].name = n}
         IN  IF Cardinality(match) > 1
             THEN [tbl |-> tbl, nxt |-> nxt, linked |-> linked, ok |-> FALSE]
             ELSE IF match = {}
             THEN get_or_create_any_user(Tail(names), u,
                                         tbl @@ (nxt :> NewAttrRow(u, n)),
                                         nxt + 1, linked \cup {nxt})
             ELSE get_or_create_any_user(Tail(names), u, tbl, nxt, linked \cup match)

(* as get_or_create_all, looking rows up by name alone and making a row that
   is found the user's: update_or_create(name=n, defaults={"user": u}) *)
RECURSIVE update_or_create_by_name(_, _, _, _, _)
update_or_create_by_name(names, u, tbl, nxt, linked) ==
    IF names = <<>>
    THEN [tbl |-> tbl, nxt |-> nxt, linked |-> linked, ok |-> TRUE]
    ELSE LET n == Head(names)
             match == {t \in DOMAIN tbl : tbl[t].name = n}
         IN  IF Cardinality(match) > 1
             THEN [tbl |-> tbl, nxt |-> nxt, linked |-> linked, ok |-> FALSE]
             ELSE IF match = {}
             THEN update_or_create_by_name(Tail(names), u,
                                           tbl @@ (nxt :> NewAttrRow(u, n)),
                                           nxt + 1, linked \cup {nxt})
             ELSE update_or_create_by_name(Tail(names), u,
                                           [t \in DOMAIN tbl |->
                                               IF t \in match THEN NewAttrRow(u, n)
                                               ELSE tbl[t]],
                                           nxt, linked \cup match)

(* as get_or_create_all, with Model.objects.create(user=u, name=n): a row is
   inserted for every item of the list *)
RECURSIVE create_all(_, _, _, _, _)
create_all(names, u, tbl, nxt, linked) ==
    IF names = <<>>
    THEN [tbl |-> tbl, nxt |-> nxt, linked |-> linked, ok |-> TRUE]
    ELSE create_all(Tail(names), u, tbl @@ (nxt :> NewAttrRow(u, Head(names))),
                    nxt + 1, linked \cup {nxt})

get_or_create_tags(names, auth_user, tbl, nxt, linked) ==
    get_or_create_all(names, auth_user, tbl, nxt, linked)

get_or_create_ingredients(names, auth_user, tbl, nxt, linked) ==
    get_or_create_all(names, auth_user, tbl, nxt, linked)

(* The outcome of a serializer's create/update: the tables after it, and
   whether it returned (ok) or raised. *)
Outcome(rs, T, I, ok) ==
    [recipes |-> rs, tags |-> T.tbl, nextTagId |-> T.nxt,
     ingredients |-> I.tbl, nextIngredientId |-> I.nxt, ok |-> ok]

Untouched(tbl, nxt, linked) == [tbl |-> tbl, nxt |-> nxt, linked |-> linked, ok |-> TRUE]

(* RecipeSerializer.create(validated_data), validated_data holding the user
   that perform_create passed to save(). *)
RecipeSerializer_create(id, auth_user, vd) ==
    LET tgs  == IF "tags" \in DOMAIN vd THEN vd.tags ELSE <<>>
        ings == IF "ingredients" \in DOMAIN vd THEN vd.ingredients ELSE <<>>
        row  == NewRecipeRow(Restrict(vd, DOMAIN vd \ {"tags", "ingredients"}))
        T    == get_or_create_tags(tgs, auth_user, tags, nextTagId, {})
        I    == IF T.ok
                THEN get_or_create_ingredients(ings, auth_user, ingredients,
                                               nextIngredientId, {})
                ELSE Untouched(ingredients, nextIngredientId, {})
    IN  Outcome(recipes @@ (id :> [row EXCEPT !.tags = T.linked,
                                              !.ingredients = I.linked]),
                T, I, T.ok /\ I.ok)

(* as RecipeSerializer_update, without instance.tags.clear() and
   instance.ingredients.clear() *)
RecipeSerializer_update_no_clear(id, auth_user, vd) ==
    LET instance == recipes[id]
        hasT == "tags" \in DOMAIN vd
        hasI == "ingredients" \in DOMAIN vd
        T == IF hasT
             THEN get_or_create_tags(vd.tags, auth_user, tags, nextTagId, instance.tags)
             ELSE Untouched(tags, nextTagId, instance.tags)
        I == IF hasI /\ T.ok
             THEN get_or_create_ingredients(vd.ingredients, auth_user, ingredients,
                                            nextIngredientId, instance.ingredients)
             ELSE Untouched(ingredients, nextIngredientId, instance.ingredients)
        linked == [instance EXCEPT !.tags = T.linked, !.ingredients = I.linked]
        saved == SetAttrs(linked, Restrict(vd, DOMAIN vd \ {"tags", "ingredients"}))
    IN  Outcome([recipes EXCEPT ![id] = IF T.ok /\ I.ok THEN saved ELSE linked],
                T, I, T.ok /\ I.ok)

(* as RecipeSerializer_update, with validated_data.pop("tags", []) and
   validated_data.pop("ingredients", []): a missing list is an empty one *)
RecipeSerializer_update_default_empty(id, auth_user, vd) ==
    LET instance == recipes[id]
        hasT == "tags" \in DOMAIN vd
        hasI == "ingredients" \in DOMAIN vd
        T == IF hasT
             THEN get_or_create_tags(vd.tags, auth_user, tags, nextTagId, {})
             ELSE Untouched(tags, nextTagId, {})
        I == IF hasI /\ T.ok
             THEN get_or_create_ingredients(vd.ingredients, auth_user, ingredients,
                                            nextIngredientId, {})
             ELSE Untouched(ingredients, nextIngredientId, IF T.ok THEN {} ELSE instance.ingredients)
        linked == [instance EXCEPT !.tags = T.linked, !.ingredients = I.linked]
        saved == SetAttrs(linked, Restrict(vd, DOMAIN vd \ {"tags", "ingredients"}))
    IN  Outcome([recipes EXCEPT ![id] = IF T.ok /\ I.ok THEN saved ELSE linked],
                T, I, T.ok /\ I.ok)

(* RecipeSerializer.update(instance, validated_data) *)
RecipeSerializer_update(id, auth_user, vd) ==
    LET instance == recipes[id]
        hasT == "tags" \in DOMAIN vd
        hasI == "ingredients" \in DOMAIN vd
        T == IF hasT
             THEN get_or_create_tags(vd.tags, auth_user, tags, nextTagId, {})
             ELSE Untouched(tags, nextTagId, instance.tags)
        I == IF hasI /\ T.ok
             THEN get_or_create_ingredients(vd.ingredients, auth_user, ingredients,
                                            nextIngredientId, {})
             ELSE Untouched(ingredients, nextIngredientId, instance.ingredients)
        linked == [instance EXCEPT !.tags = T.linked, !.ingredients = I.linked]
        saved == SetAttrs(linked, Restrict(vd, DOMAIN vd \ {"tags", "ingredients"}))
    IN  Outcome([recipes EXCEPT ![id] = IF T.ok /\ I.ok THEN saved ELSE linked],
                T, I, T.ok /\ I.ok)

(* serializer.data *)
AttrData(tbl, ids) == {[id |-> t, name |-> tbl[t].name] : t \in ids}

RecipeData(rs, T, I, id, fields) ==
    LET row == rs[id]
        full == [id |-> id, title |-> row.title, time_minutes |-> row.time_minutes,
                 price |-> row.price, link |-> row.link,
                 description |-> row.description, image |-> row.image,
                 tags |-> AttrData(T, row.tags),
                 ingredients |-> AttrData(I, row.ingredients)]
    IN  Restrict(full, fields)

----------------------------------------------------------------------------
(* recipe/views.py: RecipeViewSet *)

(* permission_classes = [IsAuthenticated] over TokenAuthentication *)
IsAuthenticated(u) == u \in Users

(* query strings are sequences of characters *)
Digits == <<"0", "1", "2", "3", "4", "5", "6", "7", "8", "9">>
IsDigit(c) == \E i \in DOMAIN Digits : Digits[i] = c
DigitValue(c) == (CHOOSE i \in DOMAIN Digits : Digits[i] = c) - 1

(* str.split(",") *)
RECURSIVE split(_)
split(qs) ==
    IF \A i \in DOMAIN qs : qs[i] # ","
    THEN <<qs>>
    ELSE LET i == CHOOSE j \in DOMAIN qs :
                      qs[j] = "," /\ \A k \in 1..(j - 1) : qs[k] # ","
         IN  <<SubSeq(qs, 1, i - 1)>> \o split(SubSeq(qs, i + 1, Len(qs)))

(* int(token): raises ValueError unless the token is a numeral *)
int_ok(tok) == tok # <<>> /\ \A i \in DOMAIN tok : IsDigit(tok[i])
RECURSIVE int(_)
int(tok) == IF tok = <<>> THEN 0
            ELSE 10 * int(SubSeq(tok, 1, Len(tok) - 1)) + DigitValue(tok[Len(tok)])

(* _params_to_ints(qs): the ids, or a ValueError (ok = FALSE) *)
params_to_ints(qs) ==
    LET toks == split(qs)
    IN  [ok |-> \A i \in DOMAIN toks : int_ok(toks[i]),
         ids |-> {int(toks[i]) : i \in {j \in DOMAIN toks : int_ok(toks[j])}}]

(* a query parameter that is given and not the empty string *)
Given(params, key) == key \in DOMAIN params /\ params[key] # <<>>

(* as RecipeViewSet_get_queryset, without filter(user=self.request.user) *)
get_queryset_all_users(u, params) ==
    LET t == IF Given(params, "tags") THEN params_to_ints(params.tags)
             ELSE [ok |-> TRUE, ids |-> {}]
        g == IF Given(params, "ingredients") THEN params_to_ints(params.ingredients)
             ELSE [ok |-> TRUE, ids |-> {}]
        q0 == DOMAIN recipes
        q1 == IF Given(params, "tags")
              THEN {r \in q0 : recipes[r].tags \cap t.ids # {}} ELSE q0
        q2 == IF Given(params, "ingredients")
              THEN {r \in q1 : recipes[r].ingredients \cap g.ids # {}} ELSE q1
    IN  [ok |-> t.ok /\ g.ok, ids |-> SortDesc(q2)]

(* as RecipeViewSet_get_queryset, a recipe passing when either of the two
   filters given passes it *)
get_queryset_either_filter(u, params) ==
    LET t == IF Given(params, "tags") THEN params_to_ints(params.tags)
             ELSE [ok |-> TRUE, ids |-> {}]
        g == IF Given(params, "ingredients") THEN params_to_ints(params.ingredients)
             ELSE [ok |-> TRUE, ids |-> {}]
        q0 == DOMAIN recipes
        q1 == IF Given(params, "tags")
              THEN {r \in q0 : recipes[r].tags \cap t.ids # {}} ELSE q0
        q2 == IF Given(params, "ingredients")
              THEN {r \in q0 : recipes[r].ingredients \cap g.ids # {}} ELSE q0
        q3 == {r \in (IF Given(params, "tags") /\ Given(params, "ingredients")
                      THEN q1 \cup q2 ELSE q1 \cap q2) : recipes[r].user = u}
    IN  [ok |-> t.ok /\ g.ok, ids |-> SortDesc(q3)]

(* RecipeViewSet.get_queryset: the ids of the rows, in order; ok = FALSE when
   _params_to_ints raised *)
RecipeViewSet_get_queryset(u, params) ==
    LET t == IF Given(params, "tags") THEN params_to_ints(params.tags)
             ELSE [ok |-> TRUE, ids |-> {}]
        g == IF Given(params, "ingredients") THEN params_to_ints(params.ingredients)
             ELSE [ok |-> TRUE, ids |-> {}]
        q0 == DOMAIN recipes
        q1 == IF Given(params, "tags")
              THEN {r \in q0 : recipes[r].tags \cap t.ids # {}} ELSE q0
        q2 == IF Given(params, "ingredients")
              THEN {r \in q1 : recipes[r].ingredients \cap g.ids # {}} ELSE q1
        q3 == {r \in q2 : recipes[r].user = u}
    IN  [ok |-> t.ok /\ g.ok, ids |-> SortDesc(q3)]

(* as RecipeViewSet_get_object, looking the pk up in Recipe.objects.all() *)
get_object_any_owner(u, pk) == pk \in DOMAIN recipes

(* get_object(): the row with this pk in get_queryset(), else Http404 *)
RecipeViewSet_get_object(u, pk) ==
    pk \in Range(RecipeViewSet_get_queryset(u, NoParams).ids)

(* get_serializer_class *)
get_serializer_class(action) ==
    IF action = "list" THEN RecipeSerializer_fields
    ELSE IF action = "upload_image" THEN RecipeImageSerializer_fields
    ELSE RecipeDetailSerializer_fields

QueryStrings == {<<>>, <<"1">>, <<"1", ",", "2">>, <<"x">>}
ListParams ==
    {t @@ i : t \in {<<>>} \cup {[tags |-> q] : q \in QueryStrings},
              i \in {<<>>} \cup {[ingredients |-> q] : q \in QueryStrings}}
ParamsOf(u, all) == IF u = Anon THEN {NoParams} ELSE all

(* the primary keys a detail URL names: every id that was given out, and the
   next one, which no row has *)
RecipePks == 1..nextRecipeId
TagPks == 1..nextTagId
IngredientPks == 1..nextIngredientId

(* req and res hold one request of a run and the response it got: the one
   that is examined, with the tables as it found them in `before`.  No handler
   reads req, res or before, so examining one request per run reaches the same
   (tables before, request, response, tables after) as examining each. *)
NoRequest == Request("none", "none", Anon, NoPk, NoData, NoParams)
Idle == req = NoRequest
Tables == [recipes |-> recipes, tags |-> tags, ingredients |-> ingredients]

Respond(r, status, body) ==
    \/ /\ req' = r
       /\ res' = Response(status, body)
       /\ before' = Tables
    \/ UNCHANGED <<req, res, before>>

(* a request that is not examined counts when it changed a table; MaxWrites
   bounds how many of them come before the examined one *)
Count ==
    IF req' = NoRequest
    THEN /\ db' # db
         /\ writes < MaxWrites
         /\ writes' = writes + 1
    ELSE writes' = writes

(* the tables after a serializer's create/update returned or raised.  What
   was written before an exception stays when every query commits on its own,
   and is undone (Rollback) when the request runs in one transaction. *)
Rollback == UNCHANGED db

Commit(o) ==
    /\ recipes' = o.recipes
    /\ tags' = o.tags
    /\ nextTagId' = o.nextTagId
    /\ ingredients' = o.ingredients
    /\ nextIngredientId' = o.nextIngredientId

(* GET /recipe/ *)
RecipeList ==
    /\ Idle
    /\ \E u \in Users \cup {Anon} : \E p \in ParamsOf(u, ListParams) :
           LET r == Request("recipe", "list", u, NoPk, NoData, p)
               q == RecipeViewSet_get_queryset(u, p)
           IN  /\ IF ~IsAuthenticated(u)
                  THEN Respond(r, HTTP_401_UNAUTHORIZED, NoBody)
                  ELSE IF ~q.ok
                  THEN Respond(r, HTTP_500_INTERNAL_SERVER_ERROR, NoBody)
                  ELSE Respond(r, HTTP_200_OK,
                               [i \in DOMAIN q.ids |->
                                   RecipeData(recipes, tags, ingredients, q.ids[i],
                                              get_serializer_class("list"))])
               /\ UNCHANGED db
    /\ Count

(* as perform_create, saving every recipe under the one user "u1" *)
perform_create_first_user(u, vd) ==
    RecipeSerializer_create(nextRecipeId, u,
                            [user |-> "u1"] @@ vd)

(* perform_create: serializer.save(user=self.request.user) *)
perform_create(u, vd) ==
    RecipeSerializer_create(nextRecipeId, u, [user |-> u] @@ vd)

(* POST /recipe/ *)
RecipeCreate ==
    /\ Idle
    /\ \E u \in Users \cup {Anon} :
         \E d \in PayloadsOf(IsAuthenticated(u), RecipePayloads(u, FALSE)) :
           LET r == Request("recipe", "create", u, NoPk, d, NoParams)
               fields == get_serializer_class("create")
           IN  IF ~IsAuthenticated(u)
               THEN Respond(r, HTTP_401_UNAUTHORIZED, NoBody) /\ UNCHANGED db
               ELSE IF ~is_valid(d, RequiredRecipeFields, FALSE)
               THEN Respond(r, HTTP_400_BAD_REQUEST, NoBody) /\ UNCHANGED db
               ELSE LET o == perform_create(u, validated_data(d, fields))
                    IN  IF o.ok
                        THEN /\ Commit(o)
                             /\ nextRecipeId' = nextRecipeId + 1
                             /\ Respond(r, HTTP_201_CREATED,
                                        RecipeData(o.recipes, o.tags, o.ingredients,
                                                   nextRecipeId, fields))
                        ELSE /\ \/ Commit(o) /\ nextRecipeId' = nextRecipeId + 1
                                \/ Rollback
                             /\ Respond(r, HTTP_500_INTERNAL_SERVER_ERROR, NoBody)
    /\ Count

(* GET /recipe/<pk>/ *)
RecipeRetrieve ==
    /\ Idle
    /\ \E u \in Users \cup {Anon}, pk \in RecipePks :
           LET r == Request("recipe", "retrieve", u, pk, NoData, NoParams)
           IN  /\ IF ~IsAuthenticated(u)
                  THEN Respond(r, HTTP_401_UNAUTHORIZED, NoBody)
                  ELSE IF ~RecipeViewSet_get_object(u, pk)
                  THEN Respond(r, HTTP_404_NOT_FOUND, NoBody)
                  ELSE Respond(r, HTTP_200_OK,
                               RecipeData(recipes, tags, ingredients, pk,
                                          get_serializer_class("retrieve")))
               /\ UNCHANGED db
    /\ Count

(* PUT /recipe/<pk>/ (partial = FALSE), PATCH /recipe/<pk>/ (partial = TRUE) *)
RecipeUpdate ==
    /\ Idle
    /\ \E u \in Users \cup {Anon}, pk \in RecipePks, partial \in BOOLEAN :
         \E d \in PayloadsOf(IsAuthenticated(u) /\ RecipeViewSet_get_object(u, pk),
                              RecipePayloads(u, partial)) :
           LET action == IF partial THEN "partial_update" ELSE "update"
               r == Request("recipe", action, u, pk, d, NoParams)
               fields == get_serializer_class(action)
           IN  IF ~IsAuthenticated(u)
               THEN Respond(r, HTTP_401_UNAUTHORIZED, NoBody) /\ UNCHANGED db
               ELSE IF ~RecipeViewSet_get_object(u, pk)
               THEN Respond(r, HTTP_404_NOT_FOUND, NoBody) /\ UNCHANGED db
               ELSE IF ~is_valid(d, RequiredRecipeFields, partial)
               THEN Respond(r, HTTP_400_BAD_REQUEST, NoBody) /\ UNCHANGED db
               ELSE LET o == RecipeSerializer_update(pk, u, validated_data(d, fields))
                    IN  IF o.ok
                        THEN /\ Commit(o)
                             /\ UNCHANGED nextRecipeId
                             /\ Respond(r, HTTP_200_OK,
                                        RecipeData(o.recipes, o.tags, o.ingredients,
                                                   pk, fields))
                        ELSE /\ \/ Commit(o) /\ UNCHANGED nextRecipeId
                                \/ Rollback
                             /\ Respond(r, HTTP_500_INTERNAL_SERVER_ERROR, NoBody)
    /\ Count

(* DELETE /recipe/<pk>/ *)
RecipeDestroy ==
    /\ Idle
    /\ \E u \in Users \cup {Anon}, pk \in RecipePks :
           LET r == Request("recipe", "destroy", u, pk, NoData, NoParams)
           IN  IF ~IsAuthenticated(u)
               THEN Respond(r, HTTP_401_UNAUTHORIZED, NoBody) /\ UNCHANGED db
               ELSE IF ~RecipeViewSet_get_object(u, pk)
               THEN Respond(r, HTTP_404_NOT_FOUND, NoBody) /\ UNCHANGED db
               ELSE /\ recipes' = [i \in DOMAIN recipes \ {pk} |-> recipes[i]]
                    /\ UNCHANGED <<tags, ingredients, nextRecipeId, nextTagId,
                                   nextIngredientId>>
                    /\ Respond(r, HTTP_204_NO_CONTENT, NoBody)
    /\ Count

(* POST /recipe/<pk>/upload-image/ *)
upload_image ==
    /\ Idle
    /\ \E u \in Users \cup {Anon}, pk \in RecipePks :
         \E d \in PayloadsOf(IsAuthenticated(u) /\ RecipeViewSet_get_object(u, pk),
                              ImagePayloads) :
           LET r == Request("recipe", "upload_image", u, pk, d, NoParams)
               fields == get_serializer_class("upload_image")
           IN  IF ~IsAuthenticated(u)
               THEN Respond(r, HTTP_401_UNAUTHORIZED, NoBody) /\ UNCHANGED db
               ELSE IF ~RecipeViewSet_get_object(u, pk)
               THEN Respond(r, HTTP_404_NOT_FOUND, NoBody) /\ UNCHANGED db
               ELSE IF RecipeImageSerializer_is_valid(d)
               THEN /\ recipes' = [recipes EXCEPT ![pk] =
                                       SetAttrs(@, validated_data(d, fields))]
                    /\ UNCHANGED <<tags, ingredients, nextRecipeId, nextTagId,
                                   nextIngredientId>>
                    /\ Respond(r, HTTP_200_OK, [id |-> pk, image |-> d.image])
               ELSE Respond(r, HTTP_400_BAD_REQUEST, NoBody) /\ UNCHANGED db
    /\ Count

----------------------------------------------------------------------------
(* recipe/urls.py and recipe/views.py: BaseRecipeAttrViewSet, TagViewSet,
   IngredientViewSet *)

(* router.register(...): the view sets that have URLs *)
router == {"recipe", "tag"}
Routed(resource) == resource \in router

AttrResources == {"tag", "ingredient"}
Table(resource) == IF resource = "tag" THEN tags ELSE ingredients
AttrPks(resource) == IF resource = "tag" THEN TagPks ELSE IngredientPks

Perms(S) == {s \in [1..Cardinality(S) -> S] : \A i, j \in DOMAIN s : s[i] = s[j] => i = j}

(* BaseRecipeAttrViewSet.get_queryset: filter(user=u).order_by("-name"); rows
   of equal name come in an order the database chooses, so this is the set of
   the orders it can return *)
BaseRecipeAttrViewSet_get_queryset(tbl, u) ==
    {s \in Perms({t \in DOMAIN tbl : tbl[t].user = u}) :
        \A i, j \in DOMAIN s :
            i < j => NameRank(tbl[s[i]].name) >= NameRank(tbl[s[j]].name)}

(* as BaseRecipeAttrViewSet_get_object, looking the pk up in the whole table *)
attr_get_object_any_owner(tbl, u, pk) == pk \in DOMAIN tbl

BaseRecipeAttrViewSet_get_object(tbl, u, pk) ==
    \E s \in BaseRecipeAttrViewSet_get_queryset(tbl, u) : pk \in Range(s)

(* the tables after a write to the table of `resource` *)
SetTable(resource, tbl) ==
    IF resource = "tag"
    THEN tags' = tbl /\ UNCHANGED ingredients
    ELSE ingredients' = tbl /\ UNCHANGED tags

(* the query strings of a list request; get_queryset reads none of them *)
AttrListParams == {NoParams, [assigned_only |-> <<"1">>], [assigned_only |-> <<"0">>]}

(* GET /tags/, GET /ingredients/ *)
AttrList(resource) ==
    /\ Idle
    /\ \E u \in Users \cup {Anon} : \E p \in ParamsOf(u, AttrListParams) :
         \E s \in BaseRecipeAttrViewSet_get_queryset(Table(resource), u) :
           LET r == Request(resource, "list", u, NoPk, NoData, p)
           IN  /\ IF ~Routed(resource)
                  THEN Respond(r, HTTP_404_NOT_FOUND, NoBody)
                  ELSE IF ~IsAuthenticated(u)
                  THEN Respond(r, HTTP_401_UNAUTHORIZED, NoBody)
                  ELSE Respond(r, HTTP_200_OK,
                               [i \in DOMAIN s |->
                                   [id |-> s[i], name |-> Table(resource)[s[i]].name]])
               /\ UNCHANGED db
    /\ Count

(* PUT (partial = FALSE) and PATCH (partial = TRUE) on /tags/<pk>/,
   /ingredients/<pk>/ *)
AttrUpdate(resource) ==
    /\ Idle
    /\ \E u \in Users \cup {Anon}, pk \in AttrPks(resource), partial \in BOOLEAN :
         \E d \in PayloadsOf(/\ Routed(resource)
                              /\ IsAuthenticated(u)
                              /\ BaseRecipeAttrViewSet_get_object(Table(resource), u, pk),
                              AttrPayloads) :
           LET action == IF partial THEN "partial_update" ELSE "update"
               r == Request(resource, action, u, pk, d, NoParams)
               tbl == Table(resource)
           IN  IF ~Routed(resource)
               THEN Respond(r, HTTP_404_NOT_FOUND, NoBody) /\ UNCHANGED db
               ELSE IF ~IsAuthenticated(u)
               THEN Respond(r, HTTP_401_UNAUTHORIZED, NoBody) /\ UNCHANGED db
               ELSE IF ~BaseRecipeAttrViewSet_get_object(tbl, u, pk)
               THEN Respond(r, HTTP_404_NOT_FOUND, NoBody) /\ UNCHANGED db
               ELSE IF ~is_valid(d, {"name"}, partial)
               THEN Respond(r, HTTP_400_BAD_REQUEST, NoBody) /\ UNCHANGED db
               ELSE LET row == SetAttrs(tbl[pk], validated_data(d, TagSerializer_fields))
                    IN  /\ SetTable(resource, [tbl EXCEPT ![pk] = row])
                        /\ UNCHANGED <<recipes, nextRecipeId, nextTagId, nextIngredientId>>
                        /\ Respond(r, HTTP_200_OK, [id |-> pk, name |-> row.name])
    /\ Count

(* DELETE /tags/<pk>/, /ingredients/<pk>/: the row and its links go *)
AttrDestroy(resource) ==
    /\ Idle
    /\ \E u \in Users \cup {Anon}, pk \in AttrPks(resource) :
           LET r == Request(resource, "destroy", u, pk, NoData, NoParams)
               tbl == Table(resource)
           IN  IF ~Routed(resource)
               THEN Respond(r, HTTP_404_NOT_FOUND, NoBody) /\ UNCHANGED db
               ELSE IF ~IsAuthenticated(u)
               THEN Respond(r, HTTP_401_UNAUTHORIZED, NoBody) /\ UNCHANGED db
               ELSE IF ~BaseRecipeAttrViewSet_get_object(tbl, u, pk)
               THEN Respond(r, HTTP_404_NOT_FOUND, NoBody) /\ UNCHANGED db
               ELSE /\ SetTable(resource, [t \in DOMAIN tbl \ {pk} |-> tbl[t]])
                    /\ recipes' = [i \in DOMAIN recipes |->
                           IF resource = "tag"
                           THEN [recipes[i] EXCEPT !.tags = @ \ {pk}]
                           ELSE [recipes[i] EXCEPT !.ingredients = @ \ {pk}]]
                    /\ UNCHANGED <<nextRecipeId, nextTagId, nextIngredientId>>
                    /\ Respond(r, HTTP_204_NO_CONTENT, NoBody)
    /\ Count

(* The methods BaseRecipeAttrViewSet has no mixin for: POST on the list URL
   ("create") and GET on the detail URL ("retrieve") *)
AttrMethodNotAllowed(resource) ==
    /\ Idle
    /\ \E u \in Users \cup {Anon}, action \in {"create", "retrieve"} :
           LET r == Request(resource, action, u, NoPk, NoData, NoParams)
           IN  /\ IF ~Routed(resource)
                  THEN Respond(r, HTTP_404_NOT_FOUND, NoBody)
                  ELSE IF ~IsAuthenticated(u)
                  THEN Respond(r, HTTP_401_UNAUTHORIZED, NoBody)
                  ELSE Respond(r, HTTP_405_METHOD_NOT_ALLOWED, NoBody)
               /\ UNCHANGED db
    /\ Count

----------------------------------------------------------------------------
(* The specification *)

Init ==
    /\ recipes = <<>>
    /\ tags = <<>>
    /\ ingredients = <<>>
    /\ nextRecipeId = 1
    /\ nextTagId = 1
    /\ nextIngredientId = 1
    /\ writes = 0
    /\ req = NoRequest
    /\ res = Response(0, NoBody)
    /\ before = Tables
    /\ users = <<>>
    /\ nextUserId = 1
    /\ tokens = {}

(* the recipe API writes neither the User nor the Token table *)
Next ==
    \/ RecipeList /\ UNCHANGED accounts
    \/ RecipeCreate /\ UNCHANGED accounts
    \/ RecipeRetrieve /\ UNCHANGED accounts
    \/ RecipeUpdate /\ UNCHANGED accounts
    \/ RecipeDestroy /\ UNCHANGED accounts
    \/ upload_image /\ UNCHANGED accounts
    \/ \E resource \in AttrResources : AttrList(resource) /\ UNCHANGED accounts
    \/ \E resource \in AttrResources : AttrUpdate(resource) /\ UNCHANGED accounts
    \/ \E resource \in AttrResources : AttrDestroy(resource) /\ UNCHANGED accounts
    \/ \E resource \in AttrResources : AttrMethodNotAllowed(resource) /\ UNCHANGED accounts


Spec == Init /\ [][Next]_vars

----------------------------------------------------------------------------
(* The user API and the user model (core.models.User and its manager, the
   user app's serializers and views).  Emails and passwords are sequences of
   characters. *)

MaxAccountWrites == 2
MaxEmailLen == 3
MinPasswordLength == 5

EmailChars == {"a", "A", "@"}
Emails == Seqs(EmailChars, MaxEmailLen)
Lower(c) == IF c = "A" THEN "a" ELSE c

UserNames == {"n1", "n2"}
Blank == <<>>
Short == <<"p", "w">>
Good1 == <<"p", "a", "s", "s", "1">>
Good2 == <<"p", "a", "s", "s", "2", "2">>

(* BaseUserManager.normalize_email: rsplit("@", 1), the domain part lower-cased;
   an address without "@" is left as it is *)
HasAt(email) == \E i \in DOMAIN email : email[i] = "@"
LastAt(email) == CHOOSE i \in DOMAIN email :
                    email[i] = "@" /\ \A j \in DOMAIN email : j > i => email[j] # "@"

(* as normalize_email, lower-casing the whole address *)
normalize_email_lower_all(email) == [i \in DOMAIN email |-> Lower(email[i])]

normalize_email(email) ==
    IF ~HasAt(email) THEN email
    ELSE [i \in DOMAIN email |-> IF i > LastAt(email) THEN Lower(email[i]) ELSE email[i]]

(* set_password / check_password: the stored value is a hash of the raw one *)
make_password(raw) == <<"hash", raw>>
check_password(raw, stored) == stored = make_password(raw)

EmailsOf(us) == {us[i].email : i \in DOMAIN us}
UserByEmail(us, email) == {i \in DOMAIN us : us[i].email = email}

NewUserRow(email, password, name) ==
    [email |-> email, name |-> name, password |-> make_password(password),
     is_staff |-> FALSE, is_superuser |-> FALSE]

(* UserManager.create_user(email, password, **extra_fields): ValueError without
   an email; the email is the key of the table, so a second row with an email
   that is there is refused (IntegrityError) *)
create_user(email, password, name) ==
    IF email = <<>>
    THEN [raised |-> "ValueError", users |-> users]
    ELSE LET row == NewUserRow(normalize_email(email), password, name)
         IN  IF row.email \in EmailsOf(users)
             THEN [raised |-> "IntegrityError", users |-> users]
             ELSE [raised |-> "", users |-> users @@ (nextUserId :> row)]

(* UserManager.create_superuser(email, password) *)
create_superuser(email, password) ==
    LET o == create_user(email, password, "")
    IN  IF o.raised # "" THEN o
        ELSE [o EXCEPT !.users[nextUserId].is_staff = TRUE,
                       !.users[nextUserId].is_superuser = TRUE]

(* an email address the serializer's EmailField takes: name@domain *)
IsEmailAddress(e) ==
    /\ HasAt(e)
    /\ Cardinality({i \in DOMAIN e : e[i] = "@"}) = 1
    /\ e[1] # "@" /\ e[Len(e)] # "@"

ApiEmails == {<<"a", "@", "a">>, <<"a", "@", "A">>, <<"A", "@", "a">>, <<"a">>}
ApiPasswords == {Blank, Short, Good1}

UserPayloads ==
    {NoData}
    \cup {[email |-> e, password |-> pw, name |-> "n1"] : e \in ApiEmails, pw \in ApiPasswords}
TokenPayloads ==
    {[email |-> e, password |-> pw] :
        e \in ApiEmails \ {<<"a">>}, pw \in {Blank, Short, Good1, Good2}}
ProfilePayloads ==
    {NoData, [name |-> "n2"], [password |-> Good2], [password |-> Short],
     [name |-> "n2", password |-> Good2]}

(* as password_is_valid, with no least length *)
password_is_valid_any_length(pw) == pw # Blank

(* the serializer's password field: not blank, min_length 5 *)
password_is_valid(pw) == pw # Blank /\ Len(pw) >= MinPasswordLength

(* as UserSerializer_is_valid, without the check that the email is not taken *)
UserSerializer_is_valid_not_unique(data) ==
    /\ {"email", "password", "name"} \subseteq DOMAIN data
    /\ IsEmailAddress(data.email)
    /\ password_is_valid(data.password)

(* UserSerializer(data).is_valid() on creation *)
UserSerializer_is_valid(data) ==
    /\ {"email", "password", "name"} \subseteq DOMAIN data
    /\ IsEmailAddress(data.email)
    /\ data.email \notin EmailsOf(users)
    /\ password_is_valid(data.password)

(* UserSerializer.data: the password is write-only *)
UserData(row) == [email |-> row.email, name |-> row.name]

(* as authenticate, not checking the password *)
authenticate_any_password(email, password) == UserByEmail(users, email)

(* authenticate(username=email, password=password): the users it accepts *)
authenticate(email, password) ==
    {i \in UserByEmail(users, email) : check_password(password, users[i].password)}

(* the key of the token of user i, and the Authorization header of a request:
   none, or a key.  TokenAuthentication accepts a key that is in the Token
   table *)
Token(i) == <<"Token", i>>
NoCredentials == <<>>
Credentials == {NoCredentials} \cup {Token(i) : i \in 1..nextUserId}
Authorization(c) == [authorization |-> c]
TokenAuthenticated(c) == \E i \in tokens : c = Token(i)
UserOf(c) == CHOOSE i \in tokens : c = Token(i)

Accounts == [users |-> users, tokens |-> tokens]

AccountRespond(r, status, body) ==
    \/ /\ req' = r
       /\ res' = Response(status, body)
       /\ before' = Accounts
    \/ UNCHANGED <<req, res, before>>

(* a request that is not examined counts when it changed the User table;
   MaxAccountWrites bounds how many of them come before the examined one *)
AccountCount ==
    /\ IF req' = NoRequest /\ users' # users
       THEN /\ writes < MaxAccountWrites
            /\ writes' = writes + 1
       ELSE writes' = writes
    /\ UNCHANGED db

Insert(o) ==
    /\ users' = o.users
    /\ nextUserId' = IF o.raised = "" THEN nextUserId + 1 ELSE nextUserId
    /\ UNCHANGED tokens

(* get_user_model().objects.create_user(email, password), called directly:
   the response of a call is what it raised ("" when it returned), with no
   HTTP status *)
ManagerCreateUser ==
    /\ Idle
    /\ \E e \in Emails, pw \in {Blank, Short} :
           LET o == create_user(e, pw, "")
           IN  /\ Insert(o)
               /\ AccountRespond(Request("manager", "create_user", Anon, NoPk,
                                         [email |-> e, password |-> pw], NoParams),
                                 0, o.raised)
    /\ AccountCount

(* get_user_model().objects.create_superuser(email, password) *)
ManagerCreateSuperuser ==
    /\ Idle
    /\ \E e \in {<<>>, <<"A", "@", "A">>, <<"a", "@", "a">>}, pw \in {Good1} :
           LET o == create_superuser(e, pw)
           IN  /\ Insert(o)
               /\ AccountRespond(Request("manager", "create_superuser", Anon, NoPk,
                                         [email |-> e, password |-> pw], NoParams),
                                 0, o.raised)
    /\ AccountCount

(* POST /api/user/create/ *)
UserCreate ==
    /\ Idle
    /\ \E d \in UserPayloads :
           LET r == Request("user", "create", Anon, NoPk, d, NoParams)
           IN  IF ~UserSerializer_is_valid(d)
               THEN AccountRespond(r, HTTP_400_BAD_REQUEST, NoBody) /\ UNCHANGED accounts
               ELSE LET o == create_user(d.email, d.password, d.name)
                    IN  /\ Insert(o)
                        /\ IF o.raised = ""
                           THEN AccountRespond(r, HTTP_201_CREATED,
                                               UserData(o.users[nextUserId]))
                           ELSE AccountRespond(r, HTTP_500_INTERNAL_SERVER_ERROR, NoBody)
    /\ AccountCount

(* POST /api/user/token/ *)
TokenCreate ==
    /\ Idle
    /\ \E d \in TokenPayloads :
           LET r == Request("user", "token", Anon, NoPk, d, NoParams)
               found == authenticate(d.email, d.password)
           IN  IF d.password = Blank \/ found = {}
               THEN AccountRespond(r, HTTP_400_BAD_REQUEST, NoBody) /\ UNCHANGED accounts
               ELSE \E i \in found :
                        /\ tokens' = tokens \cup {i}
                        /\ UNCHANGED <<users, nextUserId>>
                        /\ AccountRespond(r, HTTP_200_OK, [token |-> Token(i)])
    /\ AccountCount

(* GET /api/user/me/ *)
ProfileRetrieve ==
    /\ Idle
    /\ \E c \in Credentials :
           LET r == Request("user", "me_retrieve", Anon, NoPk, NoData, Authorization(c))
           IN  /\ IF ~TokenAuthenticated(c)
                  THEN AccountRespond(r, HTTP_401_UNAUTHORIZED, NoBody)
                  ELSE AccountRespond(r, HTTP_200_OK, UserData(users[UserOf(c)]))
               /\ UNCHANGED accounts
    /\ AccountCount

(* POST /api/user/me/ *)
ProfilePost ==
    /\ Idle
    /\ \E c \in Credentials, d \in {NoData, [name |-> "n2", password |-> Good2]} :
           LET r == Request("user", "me_post", Anon, NoPk, d, Authorization(c))
           IN  /\ IF ~TokenAuthenticated(c)
                  THEN AccountRespond(r, HTTP_401_UNAUTHORIZED, NoBody)
                  ELSE AccountRespond(r, HTTP_405_METHOD_NOT_ALLOWED, NoBody)
               /\ UNCHANGED accounts
    /\ AccountCount

(* as UserSerializer_update, writing the row of the first user *)
UserSerializer_update_first_user(i, data) ==
    LET named == IF "name" \in DOMAIN data
                 THEN [users EXCEPT ![1].name = data.name] ELSE users
    IN  IF "password" \in DOMAIN data
        THEN [named EXCEPT ![1].password = make_password(data.password)]
        ELSE named

(* UserSerializer.update(instance, validated_data): the name, and the
   password through set_password *)
UserSerializer_update(i, data) ==
    LET named == IF "name" \in DOMAIN data
                 THEN [users EXCEPT ![i].name = data.name] ELSE users
    IN  IF "password" \in DOMAIN data
        THEN [named EXCEPT ![i].password = make_password(data.password)]
        ELSE named

(* PATCH /api/user/me/ *)
ProfileUpdate ==
    /\ Idle
    /\ \E c \in Credentials :
         \E d \in PayloadsOf(TokenAuthenticated(c), ProfilePayloads) :
           LET r == Request("user", "me_partial_update", Anon, NoPk, d, Authorization(c))
           IN  IF ~TokenAuthenticated(c)
               THEN AccountRespond(r, HTTP_401_UNAUTHORIZED, NoBody) /\ UNCHANGED accounts
               ELSE IF "password" \in DOMAIN d /\ ~password_is_valid(d.password)
               THEN AccountRespond(r, HTTP_400_BAD_REQUEST, NoBody) /\ UNCHANGED accounts
               ELSE /\ users' = UserSerializer_update(UserOf(c), d)
                    /\ UNCHANGED <<nextUserId, tokens>>
                    /\ AccountRespond(r, HTTP_200_OK, UserData(users'[UserOf(c)]))
    /\ AccountCount

UserInit ==
    /\ users = <<>>
    /\ nextUserId = 1
    /\ tokens = {}
    /\ recipes = <<>>
    /\ tags = <<>>
    /\ ingredients = <<>>
    /\ nextRecipeId = 1
    /\ nextTagId = 1
    /\ nextIngredientId = 1
    /\ writes = 0
    /\ req = NoRequest
    /\ res = Response(0, NoBody)
    /\ before = Accounts

UserNext ==
    \/ ManagerCreateUser
    \/ ManagerCreateSuperuser
    \/ UserCreate
    \/ TokenCreate
    \/ ProfileRetrieve
    \/ ProfilePost
    \/ ProfileUpdate

UserSpec == UserInit /\ [][UserNext]_vars

----------------------------------------------------------------------------
(* Properties.  Each is stated of the examined request: `before` is what it
   found, the tables are what it left, res is what it answered. *)

Authenticated == req.user \in Users
OnRecipe(actions) == req.resource = "recipe" /\ req.action \in actions
Owned(tbl, u) == {t \in DOMAIN tbl : tbl[t].user = u}
NamesOf(tbl, ids) == {tbl[t].name : t \in ids}
TablesUnchanged == Tables = before
Payload(key) == IF key \in DOMAIN req.data THEN req.data[key] ELSE <<>>

(* C1: a GET of the recipe list without filter parameters by an authenticated
   user u returns exactly the recipes owned by u, ordered by descending id. *)
C1_RecipeListIsolation ==
    (OnRecipe({"list"}) /\ Authenticated /\ req.params = NoParams) =>
        /\ res.status = HTTP_200_OK
        /\ {res.body[i].id : i \in DOMAIN res.body} = Owned(recipes, req.user)
        /\ \A i, j \in DOMAIN res.body : i < j => res.body[i].id > res.body[j].id

C1_Witness ==
    /\ OnRecipe({"list"}) /\ Authenticated /\ req.params = NoParams
    /\ Len(res.body) >= 1
    /\ \E r \in DOMAIN recipes : recipes[r].user # req.user

C1_WitnessOrdered ==
    /\ OnRecipe({"list"}) /\ Authenticated /\ req.params = NoParams
    /\ Len(res.body) >= 2

(* C2: every detail operation (retrieve, PUT, PATCH, DELETE, upload-image) on
   a recipe owned by a user other than the requester is answered 404 and
   changes nothing. *)
DetailActions == {"retrieve", "update", "partial_update", "destroy", "upload_image"}

CrossUserAccess ==
    /\ OnRecipe(DetailActions) /\ Authenticated
    /\ req.pk \in DOMAIN before.recipes
    /\ before.recipes[req.pk].user # req.user

C2_CrossUserNotFound ==
    CrossUserAccess => res.status = HTTP_404_NOT_FOUND /\ TablesUnchanged

C2_Witness ==
    /\ CrossUserAccess
    /\ req.action = "partial_update" /\ req.data # NoData
    /\ before.recipes[req.pk].tags # {}
    /\ res.status = HTTP_404_NOT_FOUND

(* C3: a request without valid credentials to a recipe, tag or ingredient
   endpoint is answered 401 and changes nothing. *)
C3_AuthRequired ==
    (req.resource \in {"recipe", "tag", "ingredient"} /\ req.user = Anon) =>
        res.status = HTTP_401_UNAUTHORIZED /\ TablesUnchanged

(* the part of C3 that the router does not decide *)
C3_AuthRequiredWhereRouted ==
    (req.resource \in {"recipe", "tag"} /\ req.user = Anon) =>
        res.status = HTTP_401_UNAUTHORIZED /\ TablesUnchanged

(* C4: after a successful POST to the recipe list by u exactly one new recipe
   exists; its owner is u whatever the payload holds, and its title,
   time_minutes and price are the payload's. *)
Created == DOMAIN recipes \ DOMAIN before.recipes

RecipeCreated == OnRecipe({"create"}) /\ res.status = HTTP_201_CREATED

C4_CreateOwnedByRequester ==
    RecipeCreated =>
        /\ Authenticated
        /\ Cardinality(Created) = 1
        /\ \A r \in DOMAIN before.recipes :
              r \in DOMAIN recipes /\ recipes[r] = before.recipes[r]
        /\ \A r \in Created :
              /\ res.body.id = r
              /\ recipes[r].user = req.user
              /\ recipes[r].title = req.data.title
              /\ recipes[r].time_minutes = req.data.time_minutes
              /\ recipes[r].price = req.data.price

C4_Witness ==
    /\ RecipeCreated
    /\ "user" \in DOMAIN req.data /\ req.data.user # req.user
    /\ before.recipes # <<>>

(* C5: no PUT or PATCH on a recipe changes the owner of any recipe, whatever
   the payload holds. *)
C5_OwnerImmutable ==
    OnRecipe({"update", "partial_update"}) =>
        \A r \in DOMAIN before.recipes :
            r \in DOMAIN recipes /\ recipes[r].user = before.recipes[r].user

C5_Witness ==
    /\ OnRecipe({"update", "partial_update"})
    /\ res.status = HTTP_200_OK
    /\ "user" \in DOMAIN req.data /\ req.data.user # req.user
    /\ recipes[req.pk] # before.recipes[req.pk]

(* C6: a successful recipe creation by u with a list L of tag names links,
   for each name of L, the tag of that name u already owned, inserting no
   row, or else exactly one new tag of that name owned by u; nothing else is
   inserted or changed, and the names of the recipe's tags are exactly those
   of L.  The same holds for ingredients. *)
GotOrCreated(L, old, new, linked, u) ==
    /\ \A t \in DOMAIN old : t \in DOMAIN new /\ new[t] = old[t]
    /\ \A n \in Range(L) :
          LET had == {t \in Owned(old, u) : old[t].name = n}
              inserted == {t \in DOMAIN new \ DOMAIN old :
                              new[t].user = u /\ new[t].name = n}
          IN  IF had # {}
              THEN had \subseteq linked /\ inserted = {}
              ELSE Cardinality(inserted) = 1 /\ inserted \subseteq linked
    /\ \A t \in DOMAIN new \ DOMAIN old :
          new[t].user = u /\ new[t].name \in Range(L)
    /\ linked \subseteq Owned(new, u)
    /\ NamesOf(new, linked) = Range(L)
    /\ Cardinality(linked) = Cardinality(Range(L))

C6_GetOrCreateOnCreate ==
    RecipeCreated =>
        \A r \in Created :
            /\ GotOrCreated(Payload("tags"), before.tags, tags,
                            recipes[r].tags, req.user)
            /\ GotOrCreated(Payload("ingredients"), before.ingredients, ingredients,
                            recipes[r].ingredients, req.user)

C6_Witness ==
    /\ RecipeCreated
    /\ \E n, m \in Range(Payload("tags")) :
          /\ \E t \in Owned(before.tags, req.user) : before.tags[t].name = n
          /\ \A t \in Owned(before.tags, req.user) : before.tags[t].name # m
    /\ \E t \in DOMAIN before.tags : before.tags[t].user # req.user

C6_WitnessIngredients ==
    /\ RecipeCreated
    /\ \E n, m \in Range(Payload("ingredients")) :
          /\ \E t \in Owned(before.ingredients, req.user) :
                before.ingredients[t].name = n
          /\ \A t \in Owned(before.ingredients, req.user) :
                before.ingredients[t].name # m

(* C7: no user owns two tags of the same name, nor two ingredients of the
   same name. *)
UniqueNames(tbl) ==
    \A t1, t2 \in DOMAIN tbl :
        (tbl[t1].user = tbl[t2].user /\ tbl[t1].name = tbl[t2].name) => t1 = t2

C7_UniquePerUser == UniqueNames(tags) /\ UniqueNames(ingredients)

(* what holds of C7: a request other than a tag update leaves the names of
   a user unique when it found them unique *)
C7_UniqueButForRename ==
    (~Idle /\ UniqueNames(before.tags) /\ UniqueNames(before.ingredients)
       /\ ~(req.resource = "tag" /\ req.action \in {"update", "partial_update"}))
    => C7_UniquePerUser

(* C8: a successful PUT/PATCH by u on recipe r whose payload holds tags = L
   leaves r linked to exactly u's tags whose names are in L; the names of L
   that u had no tag for are created, owned by u; no tag row is deleted or
   changed.  The same holds for ingredients. *)
Replaced(L, old, new, linked, u) ==
    /\ linked = {t \in Owned(new, u) : new[t].name \in Range(L)}
    /\ \A n \in Range(L) : \E t \in linked : new[t].name = n
    /\ \A t \in DOMAIN new \ DOMAIN old :
          /\ new[t].user = u /\ new[t].name \in Range(L)
          /\ \A o \in Owned(old, u) : old[o].name # new[t].name
    /\ \A t \in DOMAIN old : t \in DOMAIN new /\ new[t] = old[t]

RecipeUpdated ==
    OnRecipe({"update", "partial_update"}) /\ res.status = HTTP_200_OK

C8_UpdateReplacesLinks ==
    RecipeUpdated =>
        /\ "tags" \in DOMAIN req.data =>
              Replaced(req.data.tags, before.tags, tags,
                       recipes[req.pk].tags, req.user)
        /\ "ingredients" \in DOMAIN req.data =>
              Replaced(req.data.ingredients, before.ingredients, ingredients,
                       recipes[req.pk].ingredients, req.user)

C8_Witness ==
    /\ RecipeUpdated /\ "tags" \in DOMAIN req.data
    /\ \E t \in before.recipes[req.pk].tags : t \notin recipes[req.pk].tags
    /\ DOMAIN tags # DOMAIN before.tags

C8_WitnessCleared ==
    /\ RecipeUpdated /\ Payload("ingredients") = <<>>
    /\ "ingredients" \in DOMAIN req.data
    /\ before.recipes[req.pk].ingredients # {}
    /\ recipes[req.pk].ingredients = {}

(* C9: a PATCH on a recipe leaves every scalar field that its payload does
   not name, the owner, the tags when the payload has no "tags" key, the
   ingredients when it has no "ingredients" key, and every other recipe as
   they were. *)
ScalarFields == {"title", "time_minutes", "price", "link", "description", "image"}

C9_PatchFrame ==
    (OnRecipe({"partial_update"}) /\ req.pk \in DOMAIN before.recipes) =>
        /\ DOMAIN recipes = DOMAIN before.recipes
        /\ \A r \in DOMAIN recipes \ {req.pk} : recipes[r] = before.recipes[r]
        /\ LET row == recipes[req.pk]
               old == before.recipes[req.pk]
           IN  /\ \A f \in ScalarFields \ DOMAIN req.data : row[f] = old[f]
               /\ row.user = old.user
               /\ "tags" \notin DOMAIN req.data => row.tags = old.tags
               /\ "ingredients" \notin DOMAIN req.data =>
                     row.ingredients = old.ingredients

C9_Witness ==
    /\ OnRecipe({"partial_update"}) /\ res.status = HTTP_200_OK
    /\ DOMAIN req.data = {"tags"}
    /\ recipes[req.pk].tags # before.recipes[req.pk].tags
    /\ before.recipes[req.pk].ingredients # {}
    /\ before.recipes[req.pk].link # ""

C9_WitnessScalar ==
    /\ OnRecipe({"partial_update"}) /\ res.status = HTTP_200_OK
    /\ DOMAIN req.data = {"title"}
    /\ recipes[req.pk].title # before.recipes[req.pk].title
    /\ before.recipes[req.pk].tags # {}

(* C10: a GET of the tag list, and of the ingredient list, by an authenticated
   user u returns exactly the rows owned by u, each once, ordered by name
   descending. *)
AttrListIsolation(resource) ==
    (req.resource = resource /\ req.action = "list" /\ Authenticated) =>
        /\ res.status = HTTP_200_OK
        /\ {res.body[i].id : i \in DOMAIN res.body} = Owned(Table(resource), req.user)
        /\ \A i, j \in DOMAIN res.body :
              /\ i # j => res.body[i].id # res.body[j].id
              /\ i < j => NameRank(res.body[i].name) >= NameRank(res.body[j].name)
        /\ \A i \in DOMAIN res.body :
              res.body[i].name = Table(resource)[res.body[i].id].name

C10_AttrListIsolation == AttrListIsolation("tag") /\ AttrListIsolation("ingredient")

(* the part of C10 that the router does not decide *)
C10_TagListIsolation == AttrListIsolation("tag")

(* C11: a GET of the tag list with assigned_only=1 returns exactly the
   requester's tags that at least one recipe links, each once.  (The claim
   says the same of the ingredient list, which no URL reaches: see C12.) *)
Links(resource, rs) ==
    UNION {IF resource = "tag" THEN rs[r].tags ELSE rs[r].ingredients : r \in DOMAIN rs}

AssignedOnly == "assigned_only" \in DOMAIN req.params /\ req.params.assigned_only = <<"1">>

C11_AssignedOnly ==
    (req.resource = "tag" /\ req.action = "list" /\ Authenticated /\ AssignedOnly) =>
        /\ res.status = HTTP_200_OK
        /\ {res.body[i].id : i \in DOMAIN res.body}
              = Owned(tags, req.user) \cap Links("tag", recipes)
        /\ \A i, j \in DOMAIN res.body : i # j => res.body[i].id # res.body[j].id

(* what the code does instead: assigned_only is not read, and the tag list is
   the list of all the requester's tags *)
C11_AssignedOnlyIgnored ==
    (req.resource = "tag" /\ req.action = "list" /\ Authenticated /\ AssignedOnly) =>
        /\ res.status = HTTP_200_OK
        /\ {res.body[i].id : i \in DOMAIN res.body} = Owned(tags, req.user)

C11_IgnoredWitness ==
    /\ req.resource = "tag" /\ req.action = "list" /\ Authenticated /\ AssignedOnly
    /\ \E i \in DOMAIN res.body : res.body[i].id \notin Links("tag", recipes)

(* C12: the ingredient endpoints exist: an authenticated user lists the
   ingredients (200), renames an ingredient of theirs with PATCH (200, the
   name changed) and deletes one with DELETE (204, the row gone). *)
OwnIngredient == req.pk \in Owned(before.ingredients, req.user)

C12_IngredientRouted ==
    (req.resource = "ingredient" /\ Authenticated) =>
        /\ req.action = "list" => res.status = HTTP_200_OK
        /\ (req.action = "partial_update" /\ OwnIngredient /\ "name" \in DOMAIN req.data) =>
              /\ res.status = HTTP_200_OK
              /\ req.pk \in DOMAIN ingredients
              /\ ingredients[req.pk].name = req.data.name
        /\ (req.action = "destroy" /\ OwnIngredient) =>
              /\ res.status = HTTP_204_NO_CONTENT
              /\ req.pk \notin DOMAIN ingredients

(* what the code does instead: no URL names an ingredient endpoint *)
C12_IngredientNotFound ==
    req.resource = "ingredient" => res.status = HTTP_404_NOT_FOUND /\ TablesUnchanged

C12_NotFoundWitness ==
    /\ req.resource = "ingredient" /\ Authenticated
    /\ req.action = "destroy" /\ OwnIngredient
    /\ res.status = HTTP_404_NOT_FOUND

(* C13: with tags=T the recipe list is exactly the requester's recipes that
   link a tag whose id T lists, with ingredients=I those that link an
   ingredient whose id I lists, with both those that do both; a parameter
   that is absent or empty is ignored; an id of another user's tag brings no
   recipe of another user.  T and I are comma-separated lists of ids. *)
QueryParam(key) == IF key \in DOMAIN req.params THEN req.params[key] ELSE <<>>

(* qs is a comma-separated list of one-digit ids, and n is one of them *)
IsIdList(qs) ==
    /\ Len(qs) % 2 = 1
    /\ \A i \in DOMAIN qs : IF i % 2 = 1 THEN IsDigit(qs[i]) ELSE qs[i] = ","
ListsId(qs, n) == \E i \in DOMAIN qs : i % 2 = 1 /\ n \in 0..9 /\ qs[i] = Digits[n + 1]

Passes(qs, linked) == qs = <<>> \/ \E t \in linked : ListsId(qs, t)

FilteredList ==
    /\ OnRecipe({"list"}) /\ Authenticated
    /\ \A key \in {"tags", "ingredients"} : QueryParam(key) = <<>> \/ IsIdList(QueryParam(key))

C13_RecipeListFilter ==
    FilteredList =>
        /\ res.status = HTTP_200_OK
        /\ {res.body[i].id : i \in DOMAIN res.body}
              = {r \in Owned(recipes, req.user) :
                    /\ Passes(QueryParam("tags"), recipes[r].tags)
                    /\ Passes(QueryParam("ingredients"), recipes[r].ingredients)}

C13_Witness ==
    /\ FilteredList /\ QueryParam("tags") # <<>>
    /\ Len(res.body) >= 1
    /\ \E r \in DOMAIN recipes :
          /\ recipes[r].user # req.user
          /\ \E t \in recipes[r].tags : ListsId(QueryParam("tags"), t)

C13_WitnessBoth ==
    /\ FilteredList /\ QueryParam("tags") # <<>> /\ QueryParam("ingredients") # <<>>
    /\ res.body = <<>>
    /\ \E r \in Owned(recipes, req.user) : Passes(QueryParam("tags"), recipes[r].tags)

C13_WitnessEmptyIgnored ==
    /\ FilteredList /\ "tags" \in DOMAIN req.params /\ req.params.tags = <<>>
    /\ "ingredients" \in DOMAIN req.params /\ req.params.ingredients # <<>>
    /\ Len(res.body) >= 1

(* C14: a POST to the upload-image action of a recipe by its owner is answered
   200 and sets the recipe's image when the payload holds a valid image file,
   and only then; otherwise it is answered 400 and nothing changes. *)
OwnUpload ==
    /\ OnRecipe({"upload_image"}) /\ Authenticated
    /\ req.pk \in Owned(before.recipes, req.user)

ValidImagePayload == "image" \in DOMAIN req.data /\ req.data.image \in ValidImages

C14_ImageUpload ==
    OwnUpload =>
        IF ValidImagePayload
        THEN /\ res.status = HTTP_200_OK
             /\ recipes = [before.recipes EXCEPT ![req.pk].image = req.data.image]
             /\ tags = before.tags /\ ingredients = before.ingredients
        ELSE res.status = HTTP_400_BAD_REQUEST /\ TablesUnchanged

C14_Witness ==
    /\ OwnUpload /\ ValidImagePayload
    /\ res.status = HTTP_200_OK
    /\ before.recipes[req.pk].image # recipes[req.pk].image
    /\ before.recipes[req.pk].tags # {}

C14_WitnessNotAnImage ==
    /\ OwnUpload /\ "image" \in DOMAIN req.data /\ ~ValidImagePayload
    /\ res.status = HTTP_400_BAD_REQUEST

C14_WitnessMissing ==
    /\ OwnUpload /\ req.data = NoData
    /\ res.status = HTTP_400_BAD_REQUEST

(* C15: a PATCH on a tag the requester owns is answered 200 and changes
   nothing but that tag's name; a DELETE is answered 204, and then the tag
   is gone and no recipe links it, every other tag is as it was and every
   recipe is as it was but for the link to that tag; PUT, PATCH and DELETE on
   a tag of another user are answered 404 and change nothing. *)
OnTag(actions) == req.resource = "tag" /\ req.action \in actions /\ Authenticated
OwnTag == req.pk \in Owned(before.tags, req.user)
OthersTag == req.pk \in DOMAIN before.tags /\ before.tags[req.pk].user # req.user

C15_TagMaintenance ==
    /\ (OnTag({"partial_update"}) /\ OwnTag) =>
          /\ res.status = HTTP_200_OK
          /\ tags = [before.tags EXCEPT ![req.pk].name =
                        IF "name" \in DOMAIN req.data THEN req.data.name ELSE @]
          /\ recipes = before.recipes /\ ingredients = before.ingredients
    /\ (OnTag({"destroy"}) /\ OwnTag) =>
          /\ res.status = HTTP_204_NO_CONTENT
          /\ tags = [t \in DOMAIN before.tags \ {req.pk} |-> before.tags[t]]
          /\ recipes = [r \in DOMAIN before.recipes |->
                           [before.recipes[r] EXCEPT !.tags = @ \ {req.pk}]]
          /\ ingredients = before.ingredients
    /\ (OnTag({"update", "partial_update", "destroy"}) /\ OthersTag) =>
          res.status = HTTP_404_NOT_FOUND /\ TablesUnchanged

C15_Witness ==
    /\ OnTag({"partial_update"}) /\ OwnTag
    /\ tags[req.pk].name # before.tags[req.pk].name
    /\ \E r \in DOMAIN recipes : req.pk \in recipes[r].tags
    /\ \E t \in DOMAIN tags : tags[t].user # req.user

C15_WitnessDelete ==
    /\ OnTag({"destroy"}) /\ OwnTag
    /\ \E r \in DOMAIN before.recipes : req.pk \in before.recipes[r].tags
    /\ \E t \in DOMAIN tags : t # req.pk

C15_WitnessOthers ==
    /\ OnTag({"partial_update", "destroy"}) /\ OthersTag
    /\ "name" \in DOMAIN req.data
    /\ res.status = HTTP_404_NOT_FOUND

----------------------------------------------------------------------------
(* Properties of the user API, stated of the examined request under UserSpec:
   `before` is the User and Token tables as it found them. *)

OnUser(actions) == req.resource = "user" /\ req.action \in actions
OnManager(actions) == req.resource = "manager" /\ req.action \in actions
UsersUnchanged == users = before.users
NewUsers == DOMAIN users \ DOMAIN before.users
OldUsersKept == \A i \in DOMAIN before.users : i \in DOMAIN users /\ users[i] = before.users[i]

(* C16: a user creation whose password is shorter than 5 characters is
   answered 400 and leaves the users as they were; a creation answered 201
   made one user, whose stored password check_password accepts for the
   payload's password, and its response holds no password. *)
C16_PasswordLength ==
    OnUser({"create"}) =>
        /\ ("password" \in DOMAIN req.data /\ Len(req.data.password) < 5) =>
              res.status = HTTP_400_BAD_REQUEST /\ UsersUnchanged
        /\ res.status = HTTP_201_CREATED =>
              /\ Cardinality(NewUsers) = 1
              /\ OldUsersKept
              /\ \A i \in NewUsers :
                    /\ check_password(req.data.password, users[i].password)
                    /\ users[i].password # req.data.password
                    /\ users[i].name = req.data.name
              /\ "password" \notin DOMAIN res.body

C16_Witness ==
    /\ OnUser({"create"})
    /\ "password" \in DOMAIN req.data /\ Len(req.data.password) \in 1..4
    /\ IsEmailAddress(req.data.email) /\ req.data.email \notin EmailsOf(before.users)
    /\ before.users # <<>>
    /\ res.status = HTTP_400_BAD_REQUEST

C16_WitnessCreated ==
    /\ OnUser({"create"}) /\ res.status = HTTP_201_CREATED
    /\ Len(req.data.password) = 5
    /\ before.users # <<>>

(* C17: no two users have the same email; a user creation whose email is the
   email of a user is answered 400 and leaves the users as they were. *)
UniqueEmails(us) == \A i, j \in DOMAIN us : us[i].email = us[j].email => i = j

C17_EmailIsKey ==
    /\ UniqueEmails(users)
    /\ (OnUser({"create"}) /\ "email" \in DOMAIN req.data
          /\ req.data.email \in EmailsOf(before.users)) =>
          res.status = HTTP_400_BAD_REQUEST /\ UsersUnchanged

C17_Witness ==
    /\ OnUser({"create"}) /\ "email" \in DOMAIN req.data
    /\ req.data.email \in EmailsOf(before.users)
    /\ password_is_valid(req.data.password)
    /\ Cardinality(DOMAIN users) = 2
    /\ res.status = HTTP_400_BAD_REQUEST

(* a creation whose email is taken only once it is normalized passes the
   serializer and is refused by the table *)
C17_WitnessNormalizedTaken ==
    /\ OnUser({"create"}) /\ res.status = HTTP_500_INTERNAL_SERVER_ERROR
    /\ UsersUnchanged

(* C18: the token endpoint answers 200 with a token exactly when the email is
   the email of a user and the password, which is not blank, is that user's;
   otherwise it answers 400 with no token. *)
ValidCredentials ==
    /\ req.data.password # <<>>
    /\ \E i \in DOMAIN before.users :
          /\ before.users[i].email = req.data.email
          /\ check_password(req.data.password, before.users[i].password)

C18_TokenIssuance ==
    OnUser({"token"}) =>
        IF ValidCredentials
        THEN /\ res.status = HTTP_200_OK
             /\ "token" \in DOMAIN res.body
             /\ \E i \in DOMAIN before.users :
                   /\ before.users[i].email = req.data.email
                   /\ res.body.token = Token(i)
                   /\ i \in tokens
             /\ UsersUnchanged
        ELSE /\ res.status = HTTP_400_BAD_REQUEST
             /\ "token" \notin DOMAIN res.body
             /\ users = before.users /\ tokens = before.tokens

C18_Witness ==
    /\ OnUser({"token"}) /\ res.status = HTTP_200_OK
    /\ Cardinality(DOMAIN users) = 2

C18_WitnessWrongPassword ==
    /\ OnUser({"token"}) /\ res.status = HTTP_400_BAD_REQUEST
    /\ req.data.password # <<>>
    /\ req.data.email \in EmailsOf(before.users)

C18_WitnessBlank ==
    /\ OnUser({"token"}) /\ res.status = HTTP_400_BAD_REQUEST
    /\ \E i \in DOMAIN before.users :
          /\ before.users[i].email = req.data.email
          /\ check_password(req.data.password, before.users[i].password)

C18_WitnessUnknownEmail ==
    /\ OnUser({"token"}) /\ res.status = HTTP_400_BAD_REQUEST
    /\ req.data.email \notin EmailsOf(before.users)
    /\ before.users # <<>>

(* C19: on the profile endpoint a GET without credentials is answered 401; a
   GET by a user is answered 200 with that user's email and name and nothing
   else; a POST by a user is answered 405 and changes no user; a PATCH by a
   user is answered 200 and sets that user's name and password to the
   payload's, the new password verifying, and changes nothing else. *)
Requester == CHOOSE i \in before.tokens : req.params.authorization = Token(i)
ByUser == \E i \in before.tokens : req.params.authorization = Token(i)

ValidProfilePayload ==
    /\ DOMAIN req.data \subseteq {"name", "password"}
    /\ "password" \in DOMAIN req.data => Len(req.data.password) >= 5

C19_ProfileMethods ==
    /\ (OnUser({"me_retrieve"}) /\ req.params.authorization = NoCredentials) =>
          res.status = HTTP_401_UNAUTHORIZED /\ UsersUnchanged
    /\ (OnUser({"me_retrieve"}) /\ ByUser) =>
          /\ res.status = HTTP_200_OK
          /\ res.body = [email |-> users[Requester].email, name |-> users[Requester].name]
          /\ UsersUnchanged
    /\ (OnUser({"me_post"}) /\ ByUser) =>
          res.status = HTTP_405_METHOD_NOT_ALLOWED /\ UsersUnchanged
    /\ (OnUser({"me_partial_update"}) /\ ByUser /\ ValidProfilePayload) =>
          /\ res.status = HTTP_200_OK
          /\ DOMAIN users = DOMAIN before.users
          /\ \A i \in DOMAIN users \ {Requester} : users[i] = before.users[i]
          /\ LET row == users[Requester]
                 old == before.users[Requester]
             IN  /\ row.email = old.email
                 /\ row.is_staff = old.is_staff /\ row.is_superuser = old.is_superuser
                 /\ row.name = IF "name" \in DOMAIN req.data THEN req.data.name ELSE old.name
                 /\ IF "password" \in DOMAIN req.data
                    THEN check_password(req.data.password, row.password)
                    ELSE row.password = old.password
          /\ tokens = before.tokens

C19_Witness ==
    /\ OnUser({"me_partial_update"}) /\ ByUser /\ res.status = HTTP_200_OK
    /\ DOMAIN req.data = {"name", "password"}
    /\ Requester # 1
    /\ users[Requester] # before.users[Requester]
    /\ Cardinality(DOMAIN users) = 2

C19_WitnessRetrieve ==
    /\ OnUser({"me_retrieve"}) /\ ByUser /\ res.status = HTTP_200_OK
    /\ Cardinality(DOMAIN users) = 2

C19_WitnessUnauthorized ==
    /\ OnUser({"me_retrieve"}) /\ req.params.authorization = NoCredentials
    /\ before.tokens # {}
    /\ res.status = HTTP_401_UNAUTHORIZED

C19_WitnessPost ==
    /\ OnUser({"me_post"}) /\ ByUser /\ req.data # NoData
    /\ res.status = HTTP_405_METHOD_NOT_ALLOWED

(* C20: create_user stores the email with the part after the @ lower-cased
   and the part before it as given, whatever the email; with an empty email
   it raises ValueError and makes no user; create_superuser makes a user
   whose is_superuser and is_staff are both true. *)
Returned == res.body = ""

DomainLowered(given, stored) ==
    /\ Len(stored) = Len(given)
    /\ \A i \in DOMAIN given :
          IF \E j \in DOMAIN given : j < i /\ given[j] = "@" /\
                                    \A k \in DOMAIN given : k > j => given[k] # "@"
          THEN stored[i] = (IF given[i] = "A" THEN "a" ELSE given[i])
          ELSE stored[i] = given[i]

C20_EmailNormalized ==
    OnManager({"create_user", "create_superuser"}) =>
        /\ req.data.email = <<>> => res.body = "ValueError" /\ UsersUnchanged
        /\ ~Returned => UsersUnchanged
        /\ Returned =>
              /\ Cardinality(NewUsers) = 1
              /\ OldUsersKept
              /\ \A i \in NewUsers :
                    /\ DomainLowered(req.data.email, users[i].email)
                    /\ req.action = "create_superuser" =>
                          users[i].is_superuser /\ users[i].is_staff

C20_Witness ==
    /\ OnManager({"create_user"}) /\ Returned
    /\ \E i \in NewUsers : users[i].email # req.data.email /\ users[i].email[1] = "A"
    /\ before.users # <<>>

C20_WitnessNoAt ==
    /\ OnManager({"create_user"}) /\ Returned
    /\ ~HasAt(req.data.email)

C20_WitnessEmpty ==
    /\ OnManager({"create_user"}) /\ req.data.email = <<>>
    /\ before.users # <<>>

C20_WitnessSuperuser ==
    /\ OnManager({"create_superuser"}) /\ Returned
    /\ \E i \in NewUsers : users[i].email # req.data.email

----------------------------------------------------------------------------
(* Properties of the links between recipes, tags and ingredients (under Spec) *)

(* C21: in every state, every tag and every ingredient that a recipe links
   exists and is owned by the user that owns the recipe. *)
LinksOwned(rs, T, I) ==
    \A r \in DOMAIN rs :
        /\ \A t \in rs[r].tags : t \in DOMAIN T /\ T[t].user = rs[r].user
        /\ \A i \in rs[r].ingredients : i \in DOMAIN I /\ I[i].user = rs[r].user

C21_LinkOwnership == LinksOwned(recipes, tags, ingredients)

C21_Witness ==
    /\ \E r1, r2 \in DOMAIN recipes :
          /\ recipes[r1].user # recipes[r2].user
          /\ \E t1 \in recipes[r1].tags, t2 \in recipes[r2].tags :
                tags[t1].name = tags[t2].name
          /\ \E i1 \in recipes[r1].ingredients, i2 \in recipes[r2].ingredients :
                ingredients[i1].name = ingredients[i2].name
    /\ OnRecipe({"update", "partial_update"}) /\ res.status = HTTP_200_OK
    /\ "ingredients" \in DOMAIN req.data

(* C22: a recipe create or update by u inserts, deletes and changes no tag,
   ingredient or recipe of another user; when it succeeds with a tag name n
   that another user has a tag of and u has not, one tag named n owned by u
   is inserted and linked, and the other user's tag is not linked. *)
OthersKept(old, new, u) ==
    /\ \A x \in DOMAIN old : old[x].user # u => (x \in DOMAIN new /\ new[x] = old[x])
    /\ \A x \in DOMAIN new : new[x].user # u => x \in DOMAIN old

RecipeWrite == OnRecipe({"create", "update", "partial_update"}) /\ Authenticated
RecipeWritten ==
    RecipeWrite /\ res.status \in {HTTP_200_OK, HTTP_201_CREATED}
Written == IF req.action = "create" THEN Created ELSE {req.pk}

OnlyOthersHave(tbl, n, u) ==
    /\ \E t \in DOMAIN tbl : tbl[t].user # u /\ tbl[t].name = n
    /\ \A t \in Owned(tbl, u) : tbl[t].name # n

C22_NoCrossUserWrite ==
    /\ RecipeWrite =>
          /\ OthersKept(before.recipes, recipes, req.user)
          /\ OthersKept(before.tags, tags, req.user)
          /\ OthersKept(before.ingredients, ingredients, req.user)
    /\ (RecipeWritten /\ "tags" \in DOMAIN req.data) =>
          \A n \in Range(req.data.tags) :
              OnlyOthersHave(before.tags, n, req.user) =>
                  \A r \in Written :
                      /\ \E t \in recipes[r].tags :
                            /\ t \notin DOMAIN before.tags
                            /\ tags[t] = [user |-> req.user, name |-> n]
                      /\ Cardinality({t \in DOMAIN tags \ DOMAIN before.tags :
                                         tags[t].name = n}) = 1
                      /\ \A t \in recipes[r].tags : tags[t].user = req.user

C22_Witness ==
    /\ RecipeWritten /\ req.action = "partial_update"
    /\ \E n \in Range(Payload("tags")) : OnlyOthersHave(before.tags, n, req.user)
    /\ \E r \in DOMAIN recipes : recipes[r].user # req.user /\ recipes[r].tags # {}

C22_WitnessCreate ==
    /\ RecipeWritten /\ req.action = "create"
    /\ \E n \in Range(Payload("tags")) : OnlyOthersHave(before.tags, n, req.user)

(* C23: a recipe write that succeeds with a tags list naming a name several
   times inserts at most one tag of that name and links one tag of that
   name; and a PUT/PATCH with a tags list that succeeded, applied again to
   the state it left, succeeds and leaves the tags of the requester and the
   tags of the recipe as they are. *)
Repeated ==
    RecipeSerializer_update(req.pk, req.user,
                            validated_data(req.data, get_serializer_class(req.action)))

C23_GetOrCreateIdempotent ==
    /\ (RecipeWritten /\ "tags" \in DOMAIN req.data) =>
          \A n \in Range(req.data.tags) : \A r \in Written :
              /\ Cardinality({t \in DOMAIN tags \ DOMAIN before.tags :
                                 tags[t].name = n}) <= 1
              /\ Cardinality({t \in recipes[r].tags : tags[t].name = n}) = 1
    /\ (RecipeUpdated /\ "tags" \in DOMAIN req.data) =>
          /\ Repeated.ok
          /\ Repeated.tags = tags
          /\ Repeated.nextTagId = nextTagId
          /\ Repeated.recipes[req.pk].tags = recipes[req.pk].tags

C23_Witness ==
    /\ RecipeUpdated /\ "tags" \in DOMAIN req.data
    /\ Len(req.data.tags) = 2 /\ req.data.tags[1] = req.data.tags[2]
    /\ DOMAIN tags # DOMAIN before.tags
    /\ before.recipes[req.pk].tags # {}

C23_WitnessCreate ==
    /\ RecipeCreated /\ "tags" \in DOMAIN req.data
    /\ Len(req.data.tags) = 2 /\ req.data.tags[1] = req.data.tags[2]
    /\ DOMAIN tags # DOMAIN before.tags

====
